---- MODULE Spec2Model ----
(***************************************************************************)
(* A model of the obsidian-chessboard plugin (src/src/main.ts): the        *)
(* notation parser ObsidianChess.parseCode, the code block renderer        *)
(* returned by ObsidianChess.draw_chessboard, plugin start-up (onload) and *)
(* the three onChange handlers of the settings tab.                        *)
(*                                                                         *)
(* Text is a sequence of one-character strings, so that startsWith,        *)
(* replace, trim and split are computed character by character as the      *)
(* JavaScript string methods compute them.                                 *)
(***************************************************************************)
EXTENDS Integers, Sequences, FiniteSets, TLC

\* ------------------------------------------------------------------ bounds
\* Directive lines (lines after line 1) of a code block.
MaxLines == 2
\* Annotation tokens of a code block, summed over its lines.
MaxTokens == 2
\* Settings-form edits after start-up.
MaxChanges == 2

\* ------------------------------------------------------ JavaScript strings
LF == "\n"
CR == "\r"
SP == " "
TAB == "\t"

\* The characters String.prototype.trim removes (those that occur here).
WhiteSpace == {SP, TAB, CR, LF}

\* The value of a destructured array element that does not exist.
Undefined == <<"undefined">>

RECURSIVE Join(_, _)
\* Array.prototype.join: the texts of ss with sep between them.
Join(ss, sep) ==
  IF ss = <<>> THEN <<>>
  ELSE IF Len(ss) = 1 THEN Head(ss)
  ELSE Head(ss) \o sep \o Join(Tail(ss), sep)

\* String.prototype.startsWith
StartsWith(s, p) == Len(s) >= Len(p) /\ SubSeq(s, 1, Len(p)) = p

\* String.prototype.indexOf, 1-based; 0 when p does not occur in s.
IndexOf(s, p) ==
  LET hits == {i \in 1..(Len(s) - Len(p) + 1) : SubSeq(s, i, i + Len(p) - 1) = p}
  IN IF hits = {} THEN 0 ELSE CHOOSE i \in hits : \A j \in hits : i <= j

\* String.prototype.includes
Includes(s, p) == IndexOf(s, p) # 0

\* String.prototype.replace with a string pattern: the first occurrence only.
Replace(s, p, r) ==
  LET i == IndexOf(s, p)
  IN IF i = 0 THEN s
     ELSE SubSeq(s, 1, i - 1) \o r \o SubSeq(s, i + Len(p), Len(s))

RECURSIVE TrimStart(_)
TrimStart(s) ==
  IF s # <<>> /\ Head(s) \in WhiteSpace THEN TrimStart(Tail(s)) ELSE s

RECURSIVE TrimEnd(_)
TrimEnd(s) ==
  IF s # <<>> /\ s[Len(s)] \in WhiteSpace
  THEN TrimEnd(SubSeq(s, 1, Len(s) - 1)) ELSE s

\* String.prototype.trim
Trim(s) == TrimEnd(TrimStart(s))

\* String.prototype.substring(1)
Substring1(s) == IF s = <<>> THEN <<>> ELSE Tail(s)

RECURSIVE SplitFrom(_, _, _)
\* The pieces of s from position i on, cur being the piece under construction.
SplitFrom(s, c, cur) ==
  IF s = <<>> THEN <<cur>>
  ELSE IF Head(s) = c THEN <<cur>> \o SplitFrom(Tail(s), c, <<>>)
  ELSE SplitFrom(Tail(s), c, Append(cur, Head(s)))

\* String.prototype.split with a one-character separator: every occurrence
\* separates, and the empty string splits into one empty piece.
Split(s, c) == SplitFrom(s, c, <<>>)

\* String.prototype.split(/\r?\n/): a line feed separates, and takes a carriage
\* return right before it into the separator.
SplitLines(s) ==
  LET raw == Split(s, LF)
      strip(p) == IF p # <<>> /\ p[Len(p)] = CR THEN SubSeq(p, 1, Len(p) - 1) ELSE p
  IN [i \in 1..Len(raw) |-> IF i < Len(raw) THEN strip(raw[i]) ELSE raw[i]]

\* ---------------------------------------------------------------- literals
FenPrefix == <<"f", "e", "n", ":", " ">>
OrientationPrefix ==
  <<"o", "r", "i", "e", "n", "t", "a", "t", "i", "o", "n", ":", " ">>
AnnotationsPrefix ==
  <<"a", "n", "n", "o", "t", "a", "t", "i", "o", "n", "s", ":", " ">>
White == <<"w", "h", "i", "t", "e">>
Black == <<"b", "l", "a", "c", "k">>
UnknownOrientation ==
  <<"U", "n", "k", "n", "o", "w", "n", " ",
    "o", "r", "i", "e", "n", "t", "a", "t", "i", "o", "n", " ">>

\* ------------------------------------------------------------- parseCode
\* ParseToken without the test of the leading character: every token that is
\* no arrow is pushed as a highlight.
ParseTokenUnfiltered(annotation) ==
  IF StartsWith(annotation, <<"A">>)
  THEN LET parts == Split(Substring1(annotation), "-")
       IN <<[type |-> "arrow",
             start |-> parts[1],
             end |-> IF Len(parts) >= 2 THEN parts[2] ELSE Undefined]>>
  ELSE <<[type |-> "highlight", square |-> Substring1(annotation)]>>

\* One token of an "annotations: " line: the annotations it pushes.
ParseToken(annotation) ==
  IF StartsWith(annotation, <<"H">>)
  THEN <<[type |-> "highlight", square |-> Substring1(annotation)]>>
  ELSE IF StartsWith(annotation, <<"A">>)
  THEN LET parts == Split(Substring1(annotation), "-")
       IN <<[type |-> "arrow",
             start |-> parts[1],
             end |-> IF Len(parts) >= 2 THEN parts[2] ELSE Undefined]>>
  ELSE <<>>

RECURSIVE ParseTokens(_)
\* The inner loop over partial_annotations.
ParseTokens(tokens) ==
  IF tokens = <<>> THEN <<>>
  ELSE ParseToken(Head(tokens)) \o ParseTokens(Tail(tokens))

\* The body of the loop over the directive lines, for one line. acc is the
\* parser's local state: annotations, orientation and, once thrown, the error.
ParseLine(line, acc) ==
  IF Trim(line) = <<>> THEN acc
  ELSE
    LET isOrientation == StartsWith(line, OrientationPrefix)
        value == Trim(Replace(line, OrientationPrefix, <<>>))
        line2 == IF isOrientation THEN value ELSE line
    IN IF isOrientation /\ value # White /\ value # Black
       THEN [acc EXCEPT !.thrown = TRUE,
                        !.error = UnknownOrientation \o acc.orientation]
       ELSE
         LET orientation2 == IF isOrientation THEN value ELSE acc.orientation
             pushed ==
               IF StartsWith(line2, AnnotationsPrefix)
               THEN ParseTokens(Split(Replace(line2, AnnotationsPrefix, <<>>), SP))
               ELSE <<>>
         IN [acc EXCEPT !.orientation = orientation2,
                        !.annotations = acc.annotations \o pushed]

\* The locals of parseCode before its loop, with Black as the default.
InitialLocalsBlack ==
  [annotations |-> <<>>, orientation |-> Black, thrown |-> FALSE, error |-> <<>>]

\* The locals of parseCode before its loop: no annotation, orientation white.
InitialLocals ==
  [annotations |-> <<>>, orientation |-> White, thrown |-> FALSE, error |-> <<>>]

RECURSIVE ParseLines(_, _)
\* The loop over lines.splice(1); a throw ends it.
ParseLines(lines, acc) ==
  IF lines = <<>> \/ acc.thrown THEN acc
  ELSE ParseLines(Tail(lines), ParseLine(Head(lines), acc))

\* ObsidianChess.parseCode: the parsed code, or the error it throws.
parseCode(input) ==
  LET lines == SplitLines(input)
      fen == IF StartsWith(lines[1], FenPrefix)
             THEN Replace(lines[1], FenPrefix, <<>>)
             ELSE lines[1]
      acc == ParseLines(Tail(lines), InitialLocals)
  IN IF acc.thrown
     THEN [ok |-> FALSE, error |-> acc.error]
     ELSE [ok |-> TRUE, fen |-> fen, annotations |-> acc.annotations,
           orientation |-> acc.orientation]

\* ------------------------------------------------------- code block texts
\* A code block is kept by its structure: line 1, the line separator and the
\* directive lines. A line is an orientation line (value between optional
\* padding), an annotations line (its tokens) or other text.
Slash == <<"/">>
EmptyRank == <<"8">>
EmptyBoard == Join([i \in 1..8 |-> EmptyRank], Slash)
SevenRanks == Join([i \in 1..7 |-> EmptyRank], Slash)
PawnRank == <<"P", "P", "P", "P", "P", "P", "P", "P">>
OverlongRank == <<"p", "p", "p", "p", "p", "p", "p", "p", "9">>

Purple == <<"p", "u", "r", "p", "l", "e">>

He4 == <<"H", "e", "4">>
Ae2e4 == <<"A", "e", "2", "-", "e", "4">>
Xz9 == <<"X", "z", "9">>
Hz9 == <<"H", "z", "9">>
Ae2 == <<"A", "e", "2">>
Aa1b2c3 == <<"A", "a", "1", "-", "b", "2", "-", "c", "3">>

OrientationLine(pad, value) ==
  [kind |-> "orientation", pad |-> pad, value |-> value, tokens |-> <<>>]
AnnotationsLine(tokens) ==
  [kind |-> "annotations", pad |-> <<>>, value |-> <<>>, tokens |-> tokens]
OtherLine(text) ==
  [kind |-> "other", pad |-> <<>>, value |-> text, tokens |-> <<>>]

\* The text of one directive line.
LineText(l) ==
  IF l.kind = "orientation" THEN OrientationPrefix \o l.pad \o l.value \o l.pad
  ELSE IF l.kind = "annotations" THEN AnnotationsPrefix \o Join(l.tokens, <<SP>>)
  ELSE l.value

\* The source text handed to the code block processor.
SourceText(d) ==
  Join(<<d.first>> \o [i \in 1..Len(d.lines) |-> LineText(d.lines[i])], d.sep)

\* Line 1 and the line separator of the blocks the parser is run on; the last
\* line 1 looks like a directive.
Starts ==
  {[first |-> EmptyBoard, sep |-> <<LF>>, lines |-> <<>>],
   [first |-> FenPrefix \o EmptyBoard, sep |-> <<CR, LF>>, lines |-> <<>>],
   [first |-> OrientationPrefix \o Black, sep |-> <<LF>>, lines |-> <<>>]}
Padding == <<SP, TAB>>
\* Blank lines and lines with no recognized prefix.
OtherTexts ==
  {<<SP, SP>>, <<SP>> \o OrientationPrefix \o Black}
Tokens == {He4, Ae2e4, Xz9, <<>>, Ae2, Aa1b2c3}

NewLines ==
  {OrientationLine(<<>>, White), OrientationLine(Padding, Black),
   OrientationLine(Padding, Purple)}
    \cup {OtherLine(t) : t \in OtherTexts}
    \cup {AnnotationsLine(<<>>)}

RECURSIVE TokenCount(_)
TokenCount(lines) ==
  IF lines = <<>> THEN 0 ELSE Len(Head(lines).tokens) + TokenCount(Tail(lines))

\* ------------------------------------------------------ JavaScript numbers
\* A number is its integer value, or NaN.
Num(n) == [nan |-> FALSE, val |-> n]
NaN == [nan |-> TRUE, val |-> 0]
DigitChars == <<"0", "1", "2", "3", "4", "5", "6", "7", "8", "9">>
IsDigit(c) == \E i \in 1..Len(DigitChars) : DigitChars[i] = c
DigitValue(c) == (CHOOSE i \in 1..Len(DigitChars) : DigitChars[i] = c) - 1

RECURSIVE DigitsValue(_, _)
\* The value of a run of decimal digits, read left to right.
DigitsValue(s, acc) ==
  IF s = <<>> THEN acc
  ELSE DigitsValue(Tail(s), acc * Len(DigitChars) + DigitValue(Head(s)))

\* Number(value) on the texts typed here: surrounding white space is dropped,
\* the empty text is 0, an optionally signed run of digits is its value, and
\* any other text is NaN.
Number(text) ==
  LET t == Trim(text)
      signed == t # <<>> /\ Head(t) \in {"-", "+"}
      digits == IF signed THEN Tail(t) ELSE t
  IN IF t = <<>> THEN Num(0)
     ELSE IF digits # <<>> /\ \A i \in 1..Len(digits) : IsDigit(digits[i])
     THEN Num(IF Head(t) = "-" THEN 0 - DigitsValue(digits, 0)
              ELSE DigitsValue(digits, 0))
     ELSE NaN

\* ----------------------------------------------------- the chessboard library
\* (./chessboardsvg, of which main.ts shows the calls only)
PieceLetters == {"p", "n", "b", "r", "q", "k", "P", "N", "B", "R", "Q", "K"}
BoardSide == 8

RECURSIVE RankSquares(_)
\* The squares one rank record fills; -1 when a character is no digit and no
\* piece letter.
RankSquares(seg) ==
  IF seg = <<>> THEN 0
  ELSE LET rest == RankSquares(Tail(seg))
           here == IF IsDigit(Head(seg)) THEN DigitValue(Head(seg))
                   ELSE IF Head(seg) \in PieceLetters THEN 1 ELSE -1
       IN IF rest < 0 \/ here < 0 THEN -1 ELSE here + rest

\* The ranks string decodes: eight records of eight squares each.
FenDecodes(fen) ==
  LET segs == Split(fen, "/")
  IN /\ Len(segs) = BoardSide
     /\ \A i \in 1..Len(segs) : RankSquares(segs[i]) = BoardSide

Files == {"a", "b", "c", "d", "e", "f", "g", "h"}
Ranks == {"1", "2", "3", "4", "5", "6", "7", "8"}
\* A square name of the board: a file letter and a rank digit.
ValidSquare(sq) == sq # Undefined /\ Len(sq) = 2 /\ sq[1] \in Files /\ sq[2] \in Ranks

\* The builder call fails with a lookup error.
CallThrows(call) == \E i \in 1..Len(call.args) : ~ValidSquare(call.args[i])

\* draw(): the shape tree, a function of the diagram alone.
Draw(diagram) == [shapes |-> diagram]

\* ------------------------------------------------------------- the plugin
StyleFields == {"whiteSquareColor", "blackSquareColor", "boardWidthPx"}
DefaultWidthPx == 320
DefaultSetting ==
  [whiteSquareColor |-> "#f0d9b5", blackSquareColor |-> "#b58862",
   boardWidthPx |-> Num(DefaultWidthPx)]

\* What loadData resolves to: nothing stored, or a blob an earlier session saved.
NoBlob == [none |-> TRUE]
StoredBlobs ==
  {NoBlob,
   [whiteSquareColor |-> "#ffffff", blackSquareColor |-> "#000000",
    boardWidthPx |-> Number(<<"4", "0", "0">>)]}

\* Texts typed into the three fields of the settings form.
WhiteTexts == {"#ffffff"}
BlackTexts == {"#000000"}
WidthTexts == {<<"6", "4">>, <<>>, <<"a", "b", "c">>, <<"-", "5">>}

\* o[f] = v, the field f being added when o has none.
SetField(o, f, v) == [k \in DOMAIN o \cup {f} |-> IF k = f THEN v ELSE o[k]]

\* The three style values of the settings object.
Style(o) == [f \in StyleFields |-> o[f]]

\* this.setting.orientation = parsedCode.orientation, skipped when the parsed
\* orientation is the default: the orientation of an earlier block stays.
StoreOrientationUnlessDefault(o, orientation) ==
  SetField(o, "orientation",
           IF orientation = White /\ "orientation" \in DOMAIN o
           THEN o.orientation ELSE orientation)

\* this.setting.orientation = parsedCode.orientation
StoreOrientation(o, orientation) == SetField(o, "orientation", orientation)

\* The code blocks the renderer is run on.
DocPlain == [first |-> EmptyBoard, sep |-> <<LF>>, lines |-> <<>>]
DocBlackAnnotated ==
  [first |-> FenPrefix \o EmptyBoard, sep |-> <<CR, LF>>,
   lines |-> <<OrientationLine(<<>>, Black), AnnotationsLine(<<He4, Ae2e4, Xz9>>)>>]
DocPurple ==
  [first |-> EmptyBoard, sep |-> <<LF>>,
   lines |-> <<OrientationLine(<<>>, Black), OrientationLine(<<>>, Purple)>>]
DocSevenRanksBlack ==
  [first |-> SevenRanks, sep |-> <<LF>>, lines |-> <<OrientationLine(Padding, Black)>>]
DocOverlongRank ==
  [first |-> Join(<<OverlongRank>> \o [i \in 1..7 |-> EmptyRank], Slash),
   sep |-> <<LF>>, lines |-> <<>>]
DocPawnsWhite ==
  [first |-> Join([i \in 1..7 |-> EmptyRank] \o <<PawnRank>>, Slash), sep |-> <<LF>>,
   lines |-> <<AnnotationsLine(<<Ae2e4>>), OrientationLine(<<>>, White),
               AnnotationsLine(<<He4>>)>>]
DocBadHighlight ==
  [first |-> EmptyBoard, sep |-> <<LF>>,
   lines |-> <<AnnotationsLine(<<He4, Hz9, Ae2e4>>)>>]
DocBlackHalfArrow ==
  [first |-> EmptyBoard, sep |-> <<LF>>,
   lines |-> <<OrientationLine(<<>>, Black), AnnotationsLine(<<He4, Ae2>>)>>]
RenderDocs ==
  {DocPlain, DocBlackAnnotated, DocPurple, DocSevenRanksBlack, DocOverlongRank,
   DocPawnsWhite, DocBadHighlight, DocBlackHalfArrow}
\* The blocks rendered when two runs are compared.
ComparedDocs == {DocPlain, DocBlackAnnotated, DocPurple, DocSevenRanksBlack}

\* The loop over parsedCode.annotations with arrows first, then highlights.
BuilderCallsArrowsFirst(annotations) ==
  LET arrows == SelectSeq(annotations, LAMBDA a : a.type = "arrow")
      lights == SelectSeq(annotations, LAMBDA a : a.type = "highlight")
  IN [i \in 1..Len(arrows) |->
        [op |-> "addArrow", args |-> <<arrows[i].start, arrows[i].end>>]]
     \o [i \in 1..Len(lights) |->
        [op |-> "highlight", args |-> <<lights[i].square>>]]

RECURSIVE BuilderCalls(_)
\* The loop over parsedCode.annotations: the builder call of each annotation.
BuilderCalls(annotations) ==
  IF annotations = <<>> THEN <<>>
  ELSE LET a == Head(annotations)
           arrow == IF a.type = "arrow"
                    THEN <<[op |-> "addArrow", args |-> <<a.start, a.end>>]>>
                    ELSE <<>>
           light == IF a.type = "highlight"
                    THEN <<[op |-> "highlight", args |-> <<a.square>>]>>
                    ELSE <<>>
       IN arrow \o light \o BuilderCalls(Tail(annotations))

RECURSIVE MadeCalls(_)
\* The calls of a sequence that are made: all up to the first that throws.
MadeCalls(calls) ==
  IF calls = <<>> THEN <<>>
  ELSE IF CallThrows(Head(calls)) THEN <<Head(calls)>>
  ELSE <<Head(calls)>> \o MadeCalls(Tail(calls))

\* el.appendChild(block) placed before block.appendChild(chessboard.draw()).
AttachBeforeDraw(outcome, block) ==
  IF outcome \in {"rendered", "draw"} THEN <<block>> ELSE <<>>

\* el.appendChild(block), the last statement of the renderer: the children of
\* the container once the renderer has returned or thrown.
Attach(outcome, block) == IF outcome = "rendered" THEN <<block>> ELSE <<>>

\* The renderer from the viewport on: the chessboard was built from p with
\* the options o2 and the builder calls made; fenOk: fromFEN returned.
RenderBuilt(p, o2, fenOk, made, drawThrows) ==
  LET builderThrew == made # <<>> /\ CallThrows(made[Len(made)])
      reachedDraw == fenOk /\ ~builderThrew
      boardWidthPx == o2.boardWidthPx
      viewport == [viewBox |-> <<Num(0), Num(0), boardWidthPx, boardWidthPx>>,
                   width |-> boardWidthPx, height |-> boardWidthPx]
      outcome == IF ~fenOk THEN "fromFEN"
                 ELSE IF builderThrew THEN made[Len(made)].op
                 ELSE IF drawThrows THEN "draw"
                 ELSE "rendered"
      block == [viewport |-> viewport, display |-> "block",
                child |-> Draw([fen |-> p.fen, options |-> o2, annotations |-> made])]
  IN [setting |-> o2, parsed |-> p,
      calls |-> <<[op |-> "fromFEN", args |-> <<>>, fen |-> p.fen, options |-> o2]>>
                  \o made
                  \o IF reachedDraw THEN <<[op |-> "draw", args |-> <<>>]>> ELSE <<>>,
      outcome |-> outcome,
      viewport |-> IF reachedDraw THEN viewport ELSE NoBlob,
      el |-> Attach(outcome, block)]

\* The renderer after its call of parseCode returned or threw p, with the
\* settings object o; drawThrows: draw() fails. Gives the settings object
\* afterwards, the calls made on the chessboard, the step that threw (or
\* rendered), the viewport made and the children of the container.
RenderParsed(p, o, drawThrows) ==
  IF ~p.ok
  THEN [setting |-> o, parsed |-> p, calls |-> <<>>, outcome |-> "parseCode",
        viewport |-> NoBlob, el |-> <<>>]
  ELSE LET fenOk == FenDecodes(p.fen)
       IN RenderBuilt(p, StoreOrientation(o, p.orientation), fenOk,
                      IF fenOk THEN MadeCalls(BuilderCalls(p.annotations)) ELSE <<>>,
                      drawThrows)

\* onChange of a settings field with the registration made before the store.
RefreshThenStore(o, field, value) ==
  [setting |-> SetField(o, field, value), registeredWith |-> o]

\* onChange of a settings field: the value is stored, then the processor is
\* registered again (refreshMarkdownCodeBlockProcessor).
StoreThenRefresh(o, field, value) ==
  LET o2 == SetField(o, field, value)
  IN [setting |-> o2, registeredWith |-> o2]

\* ------------------------------------------------------------------ state
NotParsed == [ok |-> FALSE, error |-> <<"not parsed">>]
NoRender == [outcome |-> "none"]

VARIABLES
  doc,            \* the code block in the document
  parsed,         \* what the last call of parseCode returned or threw
  pc,             \* "start" before onload, "loaded" after
  setting,        \* this.setting
  registrations,  \* calls of registerMarkdownCodeBlockProcessor so far
  registeredWith, \* this.setting as it was at the latest registration
  changes,        \* settings-form edits so far
  saved,          \* the blob last handed to saveData
  render,         \* the last run of the renderer
  ref             \* an earlier run of the renderer, kept for comparison

pluginVars == <<pc, setting, registrations, registeredWith, changes, saved, render, ref>>
vars == <<doc, parsed, pluginVars>>

Init ==
  /\ doc \in Starts
  /\ parsed = NotParsed
  /\ pc = "start"
  /\ setting = NoBlob
  /\ registrations = 0
  /\ registeredWith = NoBlob
  /\ changes = 0
  /\ saved = NoBlob
  /\ render = NoRender
  /\ ref = NoRender

\* The author adds a directive line to the block.
EditAddLine ==
  /\ parsed = NotParsed
  /\ Len(doc.lines) < MaxLines
  /\ \E l \in NewLines : doc' = [doc EXCEPT !.lines = Append(@, l)]
  /\ UNCHANGED <<parsed, pluginVars>>

\* The author adds a token to the annotations line being written.
EditAddToken ==
  /\ parsed = NotParsed
  /\ doc.lines # <<>>
  /\ doc.lines[Len(doc.lines)].kind = "annotations"
  /\ TokenCount(doc.lines) < MaxTokens
  /\ \E t \in Tokens :
       doc' = [doc EXCEPT !.lines[Len(doc.lines)].tokens = Append(@, t)]
  /\ UNCHANGED <<parsed, pluginVars>>

\* The block is handed to parseCode.
Parse ==
  /\ parsed = NotParsed
  /\ parsed' = parseCode(SourceText(doc))
  /\ UNCHANGED <<doc, pluginVars>>

NextParse == EditAddLine \/ EditAddToken \/ Parse

SpecParse == Init /\ [][NextParse]_vars

\* onload: the settings are loaded (the defaults when nothing is stored), the
\* settings tab is added and the processor is registered.
Onload ==
  /\ pc = "start"
  /\ \E blob \in StoredBlobs :
       setting' = IF blob = NoBlob THEN DefaultSetting ELSE blob
  /\ registrations' = registrations + 1
  /\ registeredWith' = setting'
  /\ pc' = "loaded"
  /\ UNCHANGED <<doc, parsed, changes, saved, render, ref>>

\* An onChange handler of the settings tab, for the field and the value it stores.
OnChange(field, value) ==
  /\ pc = "loaded"
  /\ changes < MaxChanges
  /\ LET r == StoreThenRefresh(setting, field, value)
     IN /\ setting' = r.setting
        /\ registeredWith' = r.registeredWith
        /\ saved' = r.setting
  /\ registrations' = registrations + 1
  /\ changes' = changes + 1
  /\ UNCHANGED <<doc, parsed, pc, render, ref>>

OnChangeWhite == \E value \in WhiteTexts : OnChange("whiteSquareColor", value)
OnChangeBlack == \E value \in BlackTexts : OnChange("blackSquareColor", value)
OnChangeWidth == \E value \in WidthTexts : OnChange("boardWidthPx", Number(value))

\* What is kept of a run of the renderer: its inputs (the source text and the
\* style values it started with), the number of settings edits before it, the
\* orientation an earlier run left in the settings object, and what it did.
RunRecord(source, o, nchanges, r) ==
  [source |-> source, style |-> Style(o), afterChanges |-> nchanges,
   leftover |-> IF "orientation" \in DOMAIN o THEN o.orientation ELSE <<>>,
   calls |-> r.calls, outcome |-> r.outcome, viewport |-> r.viewport, el |-> r.el]

\* The source text of each block the renderer is run on, and the renderer's
\* call of parseCode on it.
SourceTexts == [d \in RenderDocs |-> SourceText(d)]
ParsedSources == [d \in RenderDocs |-> parseCode(SourceTexts[d])]

\* The registered processor runs on a code block; with keep, the run is also
\* remembered in ref.
RenderBlock(d, drawThrows, keep) ==
  /\ pc = "loaded"
  /\ \E r \in {RenderParsed(ParsedSources[d], setting, drawThrows)} :
       /\ doc' = d
       /\ parsed' = r.parsed
       /\ setting' = r.setting
       /\ render' = RunRecord(SourceTexts[d], setting, changes, r)
       /\ ref' = IF keep THEN render' ELSE ref
  /\ UNCHANGED <<pc, registrations, registeredWith, changes, saved>>

Render == \E d \in RenderDocs, drawThrows \in BOOLEAN : RenderBlock(d, drawThrows, FALSE)

Next == Onload \/ OnChangeWhite \/ OnChangeBlack \/ OnChangeWidth \/ Render

Spec == Init /\ [][Next]_vars

\* Renders of which some are remembered, to compare two runs on equal inputs.
RenderKept ==
  \E d \in ComparedDocs, keep \in BOOLEAN : RenderBlock(d, FALSE, keep)

NextPure == Onload \/ OnChangeWhite \/ RenderKept

SpecPure == Init /\ [][NextPure]_vars

\* ------------------------------------------------- claims about parseCode
\* What the block's structure says, without running the parser.
OrientationLines(d) ==
  {i \in 1..Len(d.lines) : d.lines[i].kind = "orientation"}
BadOrientationLines(d) ==
  {i \in OrientationLines(d) : d.lines[i].value \notin {White, Black}}
Least(S) == CHOOSE i \in S : \A j \in S : i <= j
Greatest(S) == CHOOSE i \in S : \A j \in S : i >= j

RECURSIVE KeptTokens(_)
\* The tokens of the annotations lines that begin with H or A, in line order
\* and left to right.
KeptTokens(lines) ==
  IF lines = <<>> THEN <<>>
  ELSE LET l == Head(lines)
           kept == IF l.kind = "annotations"
                   THEN SelectSeq(l.tokens,
                                  LAMBDA t : t # <<>> /\ Head(t) \in {"H", "A"})
                   ELSE <<>>
       IN kept \o KeptTokens(Tail(lines))

\* C1: when a directive line is an orientation line with a value other than
\* white and black, parseCode fails and the error message includes that value
\* (the trimmed text of the first such line).
C1_ErrorNamesOffendingText ==
  (parsed # NotParsed /\ BadOrientationLines(doc) # {}) =>
    /\ parsed.ok = FALSE
    /\ Includes(parsed.error, doc.lines[Least(BadOrientationLines(doc))].value)

\* C2: a block that parses has orientation white when no directive line is an
\* orientation line, and the value of the last orientation line otherwise;
\* line 1 is no directive.
C2_LastOrientationWins ==
  parsed.ok =>
    parsed.orientation =
      IF OrientationLines(doc) = {} THEN White
      ELSE doc.lines[Greatest(OrientationLines(doc))].value

\* C2 witness: a parsed block with two orientation lines of different values.
C2_Witness ==
  /\ parsed.ok
  /\ Cardinality(OrientationLines(doc)) = 2
  /\ doc.lines[1].value # doc.lines[2].value
  /\ parsed.orientation = doc.lines[2].value

\* C3: a block with no bad orientation line parses, and its annotation list
\* is made of exactly the tokens beginning with H or A of its annotations
\* lines, in encounter order: one highlight per H token, one arrow per A token.
C3_AnnotationsAreKeptTokens ==
  parsed # NotParsed =>
    /\ BadOrientationLines(doc) = {} => parsed.ok
    /\ parsed.ok =>
         LET kept == KeptTokens(doc.lines)
         IN /\ Len(parsed.annotations) = Len(kept)
            /\ \A i \in 1..Len(kept) :
                 LET a == parsed.annotations[i]
                 IN IF Head(kept[i]) = "H"
                    THEN a.type = "highlight" /\ a.square = Tail(kept[i])
                    ELSE a.type = "arrow" /\ StartsWith(Tail(kept[i]), a.start)

\* C3 witness: a parsed block with a blank line or an unprefixed line, whose
\* annotations line holds a dropped token (empty or X...) after a kept one.
C3_Witness ==
  /\ parsed.ok
  /\ Len(parsed.annotations) = 1
  /\ \E i \in 1..Len(doc.lines) : doc.lines[i].kind = "other"
  /\ \E i \in 1..Len(doc.lines) :
       /\ Len(doc.lines[i].tokens) = 2
       /\ doc.lines[i].tokens[2] \in {Xz9, <<>>}

\* C4: the arrow parsed from an A token starts with the text between the A and
\* the first '-' and ends with all of the text after that first '-'; start
\* and end are strings.
C4_ArrowSplitsOnFirstDash ==
  parsed.ok =>
    LET kept == KeptTokens(doc.lines)
    IN \A i \in 1..Len(kept) :
         (Head(kept[i]) = "A" /\ i <= Len(parsed.annotations)) =>
           LET a == parsed.annotations[i]
               body == Tail(kept[i])
               k == IndexOf(body, <<"-">>)
           IN /\ a.type = "arrow"
              /\ a.start # Undefined /\ a.end # Undefined
              /\ k # 0
              /\ a.start = SubSeq(body, 1, k - 1)
              /\ a.end = SubSeq(body, k + 1, Len(body))

\* ------------------------------------------------ claims about the plugin
BuilderOps == {"addArrow", "highlight"}
IsPositive(n) == ~n.nan /\ n.val > 0

\* C5: when a step of the renderer fails (parseCode, fromFEN, a builder call or
\* draw), the container of the code block has no child.
C5_NoChildOnFailure ==
  (render # NoRender /\ render.outcome # "rendered") => render.el = <<>>

\* C5 witness: the last fallible step failed: draw() threw after the viewport
\* was made, and the container is empty.
C5_Witness ==
  /\ render # NoRender
  /\ render.outcome = "draw"
  /\ render.viewport # NoBlob
  /\ render.el = <<>>

\* C6: every blob handed to saveData has exactly the fields whiteSquareColor,
\* blackSquareColor and boardWidthPx.
C6_SavedBlobHasThreeFields ==
  saved # NoBlob => DOMAIN saved = StyleFields

\* C7: the processor is registered once at start-up and once per settings
\* edit, each time with the edited value already stored, and a run of the
\* renderer uses the style values current when it starts.
C7_RegisteredPerChange ==
  /\ pc = "start" => registrations = 0
  /\ pc = "loaded" =>
       /\ registrations = 1 + changes
       /\ Style(registeredWith) = Style(setting)
  /\ (render # NoRender /\ render.calls # <<>>) =>
       /\ Style(render.calls[1].options) = render.style
       /\ render.viewport # NoBlob => render.viewport.width = render.style.boardWidthPx

\* C7 witness: a block rendered after two settings edits, with the width typed
\* in the second edit.
C7_Witness ==
  /\ registrations = 3
  /\ render # NoRender
  /\ render.afterChanges = 2
  /\ render.outcome = "rendered"
  /\ render.viewport.width = setting.boardWidthPx
  /\ render.viewport.width = Number(<<"6", "4">>)

\* What a run of the renderer used: the orientation and the FEN given to
\* fromFEN, the builder calls, and the viewport.
Used(run) ==
  IF run.calls = <<>> THEN <<>>
  ELSE <<run.calls[1].options.orientation, run.calls[1].fen,
         SelectSeq(run.calls, LAMBDA c : c.op \in BuilderOps), run.viewport>>

\* C8: two runs of the renderer on the same source text under the same style
\* values use the same orientation, FEN, builder calls and viewport, whatever
\* was rendered before each.
C8_RenderIsFunctionOfInputs ==
  (render # NoRender /\ ref # NoRender
     /\ render.source = ref.source /\ render.style = ref.style)
    => Used(render) = Used(ref)

\* C8 witness: the same block rendered twice under the same style, once after
\* a block of the opposite orientation and once not.
C8_Witness ==
  /\ render # NoRender /\ ref # NoRender
  /\ render.source = ref.source /\ render.style = ref.style
  /\ render.outcome = "rendered"
  /\ render.leftover # ref.leftover
  /\ render.leftover \in {White, Black}
  /\ render.calls[1].options.orientation # render.leftover

\* C9: a run that reaches draw() has made one builder call per parsed
\* annotation, in the order of the annotation list, between fromFEN and the one
\* draw() call; no run makes a builder call after draw().
C9_BuilderCallsBeforeDraw ==
  render # NoRender =>
    /\ render.outcome \in {"rendered", "draw"} =>
         LET n == Len(parsed.annotations)
         IN /\ Len(render.calls) = n + 2
            /\ render.calls[1].op = "fromFEN"
            /\ render.calls[n + 2].op = "draw"
            /\ \A i \in 1..n :
                 LET a == parsed.annotations[i]
                 IN render.calls[i + 1] =
                      IF a.type = "arrow"
                      THEN [op |-> "addArrow", args |-> <<a.start, a.end>>]
                      ELSE [op |-> "highlight", args |-> <<a.square>>]
    /\ \A i, j \in 1..Len(render.calls) :
         (i < j /\ render.calls[i].op = "draw") =>
           render.calls[j].op \notin BuilderOps \cup {"draw"}

\* C9 witness: a rendered block with a highlight parsed before an arrow.
C9_Witness ==
  /\ render # NoRender
  /\ render.outcome = "rendered"
  /\ Len(parsed.annotations) = 2
  /\ parsed.annotations[1].type = "highlight"
  /\ parsed.annotations[2].type = "arrow"

\* C10: once loaded, the board width in the settings, and in every blob
\* handed to saveData, is a positive number.
C10_BoardWidthPositive ==
  /\ pc = "loaded" => IsPositive(setting.boardWidthPx)
  /\ saved # NoBlob => IsPositive(saved.boardWidthPx)

====
